---------------------------- MODULE Spec2Model ----------------------------
(***************************************************************************)
(* A model of plexctl (cmd/plexctl/main.go): the path-checked thread store *)
(* (FSStore, checkPath), the SSE reassembly step (processSSEChunk), the    *)
(* paced printer goroutine (startSmoothPrinter) and the streaming call     *)
(* (readSSE, streamCompletion, handleCompletionResponse).                  *)
(*                                                                         *)
(* Strings are sequences of one-character strings.  Four specifications    *)
(* share the variables: SpecPath (checkPath as a pure function), SpecStore *)
(* (Save/Load/List on a small file system), SpecFrag (one record cut into  *)
(* pieces and fed to the reassembly step) and Spec (one streaming call     *)
(* with its printer goroutine).                                            *)
(***************************************************************************)
EXTENDS Integers, Sequences, FiniteSets, TLC

VARIABLES
    \* SpecPath
    pathBase, pathCand, pathRes,
    \* the file system under and around the store
    fsFiles, fsDirs,
    \* SpecStore
    hist,
    \* the reassembly buffer of processSSEChunk
    buf,
    \* SpecFrag
    fragFrame, fragPieces, fragEmitted,
    \* the streaming call: the control task
    pc, th, final, finalCitations, pending, exit, sseRet, callErr, citationsOut,
    \* the rune channel, the context and the printer goroutine
    charCh, chClosed, ctxDone, ppc, display,
    \* what the call has seen so far
    nRead, lastEv, decoded, pushed, queuedAtClose, reqMessages, filesBefore,
    loadedFrom

pathVars == <<pathBase, pathCand, pathRes>>
fsVars == <<fsFiles, fsDirs>>
storeVars == <<hist>>
fragVars == <<fragFrame, fragPieces, fragEmitted>>
ctlVars == <<pc, th, final, finalCitations, pending, exit, sseRet, callErr, citationsOut>>
chanVars == <<charCh, chClosed, ctxDone, ppc, display>>
seenVars == <<nRead, lastEv, decoded, pushed, queuedAtClose, reqMessages, filesBefore,
              loadedFrom>>
streamVars == <<ctlVars, chanVars, seenVars>>
vars == <<pathVars, fsVars, storeVars, buf, fragVars, streamVars>>

-----------------------------------------------------------------------------
(* Bounds *)

MaxPathLen == 7

\* Calls made on the store in one behaviour of SpecStore
MaxOps == 2

\* Characters of content in a record of SpecFrag
MaxFragLen == 2

\* Frames read in one streaming call before the transport ends
MaxFrames == 3

\* Runs of "plexctl get" in one behaviour of SpecCalls
MaxCalls == 2

\* The capacity of the rune channel: 1024 in main.go 35, scaled down so
\* that one burst of content fills it
smoothPrintBufferSize == 2

-----------------------------------------------------------------------------
(* Strings *)

Sep == "/"

\* strings.HasPrefix
HasPrefix(s, p) == Len(p) <= Len(s) /\ SubSeq(s, 1, Len(p)) = p

\* All sequences over S of length at most n
SeqsUpTo(S, n) == UNION {[1..k -> S] : k \in 0..n}

-----------------------------------------------------------------------------
(* filepath.Clean / filepath.Join / filepath.Abs on a Unix file system *)

\* The components of s between separators, empty ones included.
RECURSIVE Split(_)
Split(s) ==
    IF \A i \in 1..Len(s) : s[i] # Sep
    THEN <<s>>
    ELSE LET k == CHOOSE i \in 1..Len(s) :
                      s[i] = Sep /\ \A j \in 1..(i-1) : s[j] # Sep
         IN <<SubSeq(s, 1, k-1)>> \o Split(SubSeq(s, k+1, Len(s)))

\* Clean's walk over the components of a rooted path: "" and "." are
\* dropped, ".." removes the last component kept (and nothing at the root).
RECURSIVE Resolve(_, _)
Resolve(comps, stack) ==
    IF comps = <<>> THEN stack
    ELSE LET c == Head(comps)
         IN IF c = <<>> \/ c = <<".">> THEN Resolve(Tail(comps), stack)
            ELSE IF c = <<".", ".">>
                 THEN Resolve(Tail(comps),
                              IF stack = <<>> THEN stack
                              ELSE SubSeq(stack, 1, Len(stack) - 1))
                 ELSE Resolve(Tail(comps), Append(stack, c))

RECURSIVE JoinComps(_)
JoinComps(stack) ==
    IF stack = <<>> THEN <<>>
    ELSE <<Sep>> \o Head(stack) \o JoinComps(Tail(stack))

\* filepath.Clean of a rooted path
Clean(s) ==
    LET st == Resolve(Split(s), <<>>)
    IN IF st = <<>> THEN <<Sep>> ELSE JoinComps(st)

\* The process's working directory, which filepath.Abs joins a relative
\* path to.
Cwd == <<"/", "a">>

\* filepath.Abs
Abs(p) ==
    IF p # <<>> /\ p[1] = Sep THEN Clean(p) ELSE Clean(Cwd \o <<Sep>> \o p)

\* filepath.Join(dir, name) for a rooted dir
Join(dir, name) ==
    IF name = <<>> THEN Clean(dir) ELSE Clean(dir \o <<Sep>> \o name)

-----------------------------------------------------------------------------
(* checkPath, main.go 186-200 *)

Ok(v) == [ok |-> TRUE, val |-> v, err |-> "none"]
Err(e) == [ok |-> FALSE, val |-> <<>>, err |-> e]

\* No result yet
NoRes == [ok |-> FALSE, val |-> <<>>, err |-> "pending"]

PathInitIdle ==
    /\ pathBase = <<Sep>>
    /\ pathCand = <<>>
    /\ pathRes = NoRes

\* No event has been read yet
NoEvent == [raw |-> <<>>, err |-> "none"]

\* readSSE's return values before it has returned
NoRet == [text |-> <<>>, citations |-> <<>>, err |-> "pending"]

StreamInitIdle ==
    /\ pc = "off"
    /\ th = [ID |-> <<>>, Messages |-> <<>>]
    /\ final = <<>>
    /\ finalCitations = <<>>
    /\ pending = <<>>
    /\ exit = "none"
    /\ sseRet = NoRet
    /\ callErr = "pending"
    /\ citationsOut = <<>>
    /\ charCh = <<>>
    /\ chClosed = FALSE
    /\ ctxDone = FALSE
    /\ ppc = "off"
    /\ display = <<>>
    /\ nRead = 0
    /\ lastEv = NoEvent
    /\ decoded = <<>>
    /\ pushed = <<>>
    /\ queuedAtClose = 0
    /\ reqMessages = <<>>
    /\ filesBefore = [q \in {} |-> 0]
    /\ loadedFrom = {}

\* A plausible slip: the naive string prefix, without the separator.
checkPathNaive(basePath, filePath) ==
    LET absFile == Abs(filePath)
        absBase == Abs(basePath)
    IN IF ~HasPrefix(absFile, absBase) /\ absFile # absBase
       THEN Err("PathViolation")
       ELSE Ok(absFile)

checkPath(basePath, filePath) ==
    LET absFile == Abs(filePath)
        absBase == Abs(basePath)
    IN IF ~HasPrefix(absFile, absBase \o <<Sep>>) /\ absFile # absBase
       THEN Err("PathViolation")
       ELSE Ok(absFile)

-----------------------------------------------------------------------------
(* SSE frames and records.  A frame is a sequence of tokens.  The marker   *)
(* "data: " is the two tokens "d" "t", so that a frame can be cut inside   *)
(* it, and both are characters a content string may hold.  The sentinel    *)
(* "[DONE]" is the token "S".  A record, the JSON of an sseChunk, is       *)
(*     "{"  choice*  citation*  "}"                                        *)
(* with choice = "(" content-character* ["F"] ")", where "F" stands for a  *)
(* non-empty finish_reason, and each citation is one of "1", "2", "3".     *)

DataPrefix == <<"d", "t">>

\* ssePrefixDataSize, the length of the marker (6 bytes in main.go 28)
ssePrefixDataSize == Len(DataPrefix)

Sentinel == "S"

ContentChars == {"H", "e", "l", "o", "x", "d", "t"}

CitationToks == {"1", "2", "3"}

sseChoice(content, finish) == [Content |-> content, FinishReason |-> finish]

sseChunk(choices, citations) == [Choices |-> choices, Citations |-> citations]

\* The tokens of a choice and of a record
SerChoice(c) ==
    <<"(">> \o c.Content \o (IF c.FinishReason THEN <<"F">> ELSE <<>>) \o <<")">>

RECURSIVE SerChoices(_)
SerChoices(cs) ==
    IF cs = <<>> THEN <<>> ELSE SerChoice(Head(cs)) \o SerChoices(Tail(cs))

Ser(chunk) == <<"{">> \o SerChoices(chunk.Choices) \o chunk.Citations \o <<"}">>

\* The choices at the head of s, and what follows them; not ok when a
\* choice is malformed.
RECURSIVE ParseChoices(_)
ParseChoices(s) ==
    IF s = <<>> \/ Head(s) # "("
    THEN [ok |-> TRUE, choices |-> <<>>, rest |-> s]
    ELSE IF \A i \in 2..Len(s) : s[i] # ")"
         THEN [ok |-> FALSE, choices |-> <<>>, rest |-> <<>>]
         ELSE LET k == CHOOSE i \in 2..Len(s) :
                           s[i] = ")" /\ \A j \in 2..(i-1) : s[j] # ")"
                  inner == SubSeq(s, 2, k - 1)
                  fin == inner # <<>> /\ inner[Len(inner)] = "F"
                  content == IF fin THEN SubSeq(inner, 1, Len(inner) - 1) ELSE inner
                  more == ParseChoices(SubSeq(s, k + 1, Len(s)))
              IN IF (\E i \in DOMAIN content : content[i] \notin ContentChars) \/ ~more.ok
                 THEN [ok |-> FALSE, choices |-> <<>>, rest |-> <<>>]
                 ELSE [ok |-> TRUE,
                       choices |-> <<sseChoice(content, fin)>> \o more.choices,
                       rest |-> more.rest]

\* json.Unmarshal(buf.Bytes(), &chunk): the buffer must be one whole record.
Decode(b) ==
    IF Len(b) < 2 \/ b[1] # "{" \/ b[Len(b)] # "}"
    THEN Err("DecodeFailure")
    ELSE LET p == ParseChoices(SubSeq(b, 2, Len(b) - 1))
         IN IF ~p.ok \/ \E i \in DOMAIN p.rest : p.rest[i] \notin CitationToks
            THEN Err("DecodeFailure")
            ELSE Ok(sseChunk(p.choices, p.rest))

\* bytes.Index(raw, []byte("data: ")): the first place of the marker, 1-based
\* here, and 0 for Go's -1.
IndexData(raw) ==
    LET at == {i \in 1..(Len(raw) - 1) : SubSeq(raw, i, i + 1) = DataPrefix}
    IN IF at = {} THEN 0 ELSE CHOOSE i \in at : \A j \in at : i <= j

\* appendSSEChunk, main.go 565-571
appendSSEChunk(b, raw, dataIdx) ==
    IF dataIdx = 0 THEN b \o raw
    ELSE b \o SubSeq(raw, dataIdx + ssePrefixDataSize, Len(raw))

\* The chunk of a frame that contributes none
NoChunk == sseChunk(<<>>, <<>>)

\* processSSEChunk up to buf.Reset(), main.go 395-406: the buffer
\* afterwards, whether a record was decoded, and the chunk.
Reassemble(b, raw) ==
    IF Len(raw) = 0
    THEN [buf |-> b, emitted |-> FALSE, chunk |-> NoChunk]
    ELSE LET nb == appendSSEChunk(b, raw, IndexData(raw))
             d == Decode(nb)
         IN IF ~d.ok
            THEN [buf |-> nb, emitted |-> FALSE, chunk |-> NoChunk]
            ELSE [buf |-> <<>>, emitted |-> TRUE, chunk |-> d.val]

-----------------------------------------------------------------------------
(* Threads and their JSON encoding (json.MarshalIndent / json.Unmarshal) *)

\* A byte that is not valid UTF-8, and U+FFFD, which encoding/json writes in
\* its place.
BadByte == "xFF"
ReplChar == "uFFFD"

\* The ".json" suffix, one token
JsonSuffix == ".json"

ToValidUTF8(s) == [i \in DOMAIN s |-> IF s[i] = BadByte THEN ReplChar ELSE s[i]]

ValidUTF8(s) == \A i \in DOMAIN s : s[i] # BadByte

Message(role, content) == [Role |-> role, Content |-> content]

Thread(id, messages) == [ID |-> id, Messages |-> messages]

\* The bytes of a file that is not the JSON of a thread
CorruptData == [kind |-> "corrupt", id |-> <<>>, messages |-> <<>>]

\* A plausible slip: the record is written without its messages.
MarshalNoMessages(t) ==
    [kind |-> "json", id |-> ToValidUTF8(t.ID), messages |-> <<>>]

\* json.MarshalIndent(th): strings are coerced to valid UTF-8.  A role is
\* one of the words "user" and "assistant", which are.
Marshal(t) ==
    [kind |-> "json",
     id |-> ToValidUTF8(t.ID),
     messages |-> [i \in DOMAIN t.Messages |->
                      Message(t.Messages[i].Role,
                              ToValidUTF8(t.Messages[i].Content))]]

\* json.Unmarshal(data, &th)
Unmarshal(data) ==
    IF data.kind = "json"
    THEN Ok(Thread(data.id, data.messages))
    ELSE Err("DecodeFailure")

-----------------------------------------------------------------------------
(* The file system: fsFiles maps the absolute path of each regular file to *)
(* its bytes, fsDirs is the set of directories.                            *)

EmptyFS == [q \in {} |-> CorruptData]

\* fs.basePath
FSBase == <<"/", "a", "/", "b">>

\* Byte order of the characters, for os.ReadDir's sorting by name
CharRank(c) ==
    CASE c = "." -> 1
      [] c = JsonSuffix -> 2
      [] c = Sep -> 3
      [] c = "a" -> 4
      [] c = "b" -> 5
      [] c = "h" -> 6
      [] c = "i" -> 7
      [] c = "n" -> 8
      [] c = ReplChar -> 9
      [] c = BadByte -> 10
      [] OTHER -> 11

RECURSIVE Less(_, _)
Less(x, y) ==
    IF y = <<>> THEN FALSE
    ELSE IF x = <<>> THEN TRUE
    ELSE IF CharRank(Head(x)) # CharRank(Head(y))
         THEN CharRank(Head(x)) < CharRank(Head(y))
         ELSE Less(Tail(x), Tail(y))

RECURSIVE SortNames(_)
SortNames(S) ==
    IF S = {} THEN <<>>
    ELSE LET m == CHOOSE x \in S : \A y \in S \ {x} : Less(x, y)
         IN <<m>> \o SortNames(S \ {m})

\* The name of path q when q lies directly in dir, <<>> otherwise
NameIn(dir, q) ==
    IF /\ HasPrefix(q, dir \o <<Sep>>)
       /\ \A i \in (Len(dir) + 2)..Len(q) : q[i] # Sep
    THEN SubSeq(q, Len(dir) + 2, Len(q))
    ELSE <<>>

\* os.ReadDir(dir): the names of dir's entries, files and directories,
\* sorted.
ReadDir(dir) ==
    SortNames({NameIn(dir, q) : q \in DOMAIN fsFiles \cup fsDirs} \ {<<>>})

\* The directory holding path q
Parent(q) == Join(q, <<".", ".">>)

\* os.Open + io.ReadAll
ReadFile(q) ==
    IF q \in DOMAIN fsFiles THEN Ok(fsFiles[q]) ELSE Err("ReadFailure")

\* os.WriteFile succeeds when the parent directory exists and the path is
\* not a directory.
CanWrite(q) == Parent(q) \in fsDirs /\ q \notin fsDirs

WriteFile(q, data) ==
    [r \in DOMAIN fsFiles \cup {q} |-> IF r = q THEN data ELSE fsFiles[r]]

\* safeReadFile, main.go 156-172
safeReadFile(basePath, filePath) ==
    LET chk == checkPath(basePath, filePath)
    IN IF ~chk.ok THEN chk ELSE ReadFile(chk.val)

\* The path safeReadFile hands to os.Open, if it gets that far
OpenTarget(basePath, filePath) ==
    LET chk == checkPath(basePath, filePath)
    IN IF chk.ok THEN {chk.val} ELSE {}

\* A plausible slip: the file is written without the path check.
safeWriteFileUnchecked(basePath, filePath, data) ==
    IF ~CanWrite(Abs(filePath))
    THEN [res |-> Err("WriteFailure"), files |-> fsFiles]
    ELSE [res |-> Ok(Abs(filePath)), files |-> WriteFile(Abs(filePath), data)]

\* safeWriteFile, main.go 174-184: the result, and the files afterwards
safeWriteFile(basePath, filePath, data) ==
    LET chk == checkPath(basePath, filePath)
    IN IF ~chk.ok THEN [res |-> chk, files |-> fsFiles]
       ELSE IF ~CanWrite(chk.val)
            THEN [res |-> Err("WriteFailure"), files |-> fsFiles]
            ELSE [res |-> Ok(chk.val), files |-> WriteFile(chk.val, data)]

-----------------------------------------------------------------------------
(* FSStore, main.go 92-154 *)

\* A plausible slip: the first match is taken and the scan stops.
RECURSIVE LoadScanFirst(_, _, _)
LoadScanFirst(files, idPrefix, match) ==
    IF files = <<>>
    THEN Err("NotFound")
    ELSE IF HasPrefix(Head(files), idPrefix)
         THEN Ok(Head(files))
         ELSE LoadScanFirst(Tail(files), idPrefix, match)

\* The loop of Load over the directory listing: match is "" until a name
\* with the prefix is seen; a second one is an error.
RECURSIVE LoadScan(_, _, _)
LoadScan(files, idPrefix, match) ==
    IF files = <<>>
    THEN IF match = <<>> THEN Err("NotFound") ELSE Ok(match)
    ELSE IF HasPrefix(Head(files), idPrefix)
         THEN IF match # <<>>
              THEN Err("AmbiguousPrefix")
              ELSE LoadScan(Tail(files), idPrefix, Head(files))
         ELSE LoadScan(Tail(files), idPrefix, match)

\* FSStore.Load, main.go 92-122
Load(idPrefix) ==
    LET m == LoadScan(ReadDir(FSBase), idPrefix, <<>>)
    IN IF ~m.ok THEN m
       ELSE LET data == safeReadFile(FSBase, Join(FSBase, m.val))
            IN IF ~data.ok THEN data ELSE Unmarshal(data.val)

\* The files Load opens
LoadOpens(idPrefix) ==
    LET m == LoadScan(ReadDir(FSBase), idPrefix, <<>>)
    IN IF ~m.ok THEN {} ELSE OpenTarget(FSBase, Join(FSBase, m.val))

\* FSStore.Save, main.go 124-131: the result, and the files afterwards
Save(t) ==
    safeWriteFile(FSBase, Join(FSBase, t.ID \o <<JsonSuffix>>), Marshal(t))

HasSuffix(s, x) == Len(x) <= Len(s) /\ SubSeq(s, Len(s) - Len(x) + 1, Len(s)) = x

\* A plausible slip: the scan gives up at the first entry that cannot be
\* read or decoded.
RECURSIVE ListScanStopAtCorrupt(_)
ListScanStopAtCorrupt(entries) ==
    IF entries = <<>> THEN <<>>
    ELSE LET e == Head(entries)
             q == Join(FSBase, e)
         IN IF q \in fsDirs \/ ~HasSuffix(e, <<JsonSuffix>>)
            THEN ListScanStopAtCorrupt(Tail(entries))
            ELSE LET data == safeReadFile(FSBase, q)
                 IN IF ~data.ok \/ ~Unmarshal(data.val).ok
                    THEN <<>>
                    ELSE <<Unmarshal(data.val).val>>
                             \o ListScanStopAtCorrupt(Tail(entries))

\* The loop of List: directories and names without the suffix are skipped,
\* and so is every entry that cannot be read or decoded.
RECURSIVE ListScan(_)
ListScan(entries) ==
    IF entries = <<>> THEN <<>>
    ELSE LET e == Head(entries)
             q == Join(FSBase, e)
         IN IF q \in fsDirs \/ ~HasSuffix(e, <<JsonSuffix>>)
            THEN ListScan(Tail(entries))
            ELSE LET data == safeReadFile(FSBase, q)
                 IN IF ~data.ok \/ ~Unmarshal(data.val).ok
                    THEN ListScan(Tail(entries))
                    ELSE <<Unmarshal(data.val).val>> \o ListScan(Tail(entries))

\* FSStore.List, main.go 133-154
List == Ok(ListScan(ReadDir(FSBase)))

\* The files List opens
ListOpens ==
    LET entries == ReadDir(FSBase)
    IN UNION { IF Join(FSBase, entries[i]) \in fsDirs
                  \/ ~HasSuffix(entries[i], <<JsonSuffix>>)
               THEN {}
               ELSE OpenTarget(FSBase, Join(FSBase, entries[i])) :
               i \in DOMAIN entries }

\* The paths whose content differs between two file systems
Changed(before, after) ==
    {q \in DOMAIN before \cup DOMAIN after :
        \/ q \notin DOMAIN before
        \/ q \notin DOMAIN after
        \/ before[q] # after[q]}

-----------------------------------------------------------------------------
(* SpecStore: Save, Load and List in any order on a prior store content;   *)
(* hist records each call with its argument and result.                    *)

\* The directories that exist: the store's base and its ancestors
BaseDirs == { <<Sep>>, <<"/", "a">>, FSBase }

FileIn(name) == FSBase \o <<Sep>> \o name

HiYo == << Message("user", <<"h", "i">>), Message("assistant", <<"i">>) >>

\* Prior contents of the store: empty; a record of thread "ab"; an
\* undecodable entry "a.json"; a subdirectory "a"; a file without the suffix.
InitStores ==
    { [files |-> EmptyFS, dirs |-> BaseDirs],
      [files |-> [q \in {FileIn(<<"a", "b", JsonSuffix>>)} |->
                     Marshal(Thread(<<"a", "b">>, HiYo))],
       dirs |-> BaseDirs],
      [files |-> [q \in {FileIn(<<"a", JsonSuffix>>)} |-> CorruptData],
       dirs |-> BaseDirs],
      [files |-> EmptyFS, dirs |-> BaseDirs \cup {FileIn(<<"a">>)}],
      [files |-> [q \in {FileIn(<<"b">>)} |-> CorruptData],
       dirs |-> BaseDirs] }

\* Identifiers given to Save and prefixes given to Load
StoreIds ==
    { <<"a">>, <<"a", "b">>, <<"b">>,
      <<".", ".", "/", "a">>,
      <<"a", "/", ".", ".", "/", "b">>,
      <<"a", "/", "b">>,
      <<BadByte>> }

StorePrefixes == StoreIds \cup { <<>>, <<"a", "b", JsonSuffix>> }

StoreMessages ==
    { <<>>, HiYo, << Message("user", <<"h", BadByte>>) >> }

FragInitIdle ==
    /\ buf = <<>>
    /\ fragFrame = <<>>
    /\ fragPieces = <<>>
    /\ fragEmitted = <<>>

InitStore ==
    /\ \E s \in InitStores : fsFiles = s.files /\ fsDirs = s.dirs
    /\ hist = <<>>
    /\ PathInitIdle
    /\ FragInitIdle
    /\ StreamInitIdle

DoSave(t) ==
    /\ Len(hist) < MaxOps
    /\ LET r == Save(t)
       IN /\ fsFiles' = r.files
          /\ hist' = Append(hist, [op |-> "Save", arg |-> t, res |-> r.res,
                                    opened |-> {},
                                    wrote |-> Changed(fsFiles, r.files)])
    /\ UNCHANGED <<fsDirs, pathVars, buf, fragVars, streamVars>>

DoLoad(p) ==
    /\ Len(hist) < MaxOps
    /\ hist' = Append(hist, [op |-> "Load", arg |-> p, res |-> Load(p),
                              opened |-> LoadOpens(p), wrote |-> {}])
    /\ UNCHANGED <<fsVars, pathVars, buf, fragVars, streamVars>>

DoList ==
    /\ Len(hist) < MaxOps
    /\ hist' = Append(hist, [op |-> "List", arg |-> <<>>, res |-> List,
                              opened |-> ListOpens, wrote |-> {}])
    /\ UNCHANGED <<fsVars, pathVars, buf, fragVars, streamVars>>

NextStore ==
    \/ \E id \in StoreIds, ms \in StoreMessages : DoSave(Thread(id, ms))
    \/ \E p \in StorePrefixes : DoLoad(p)
    \/ DoList

SpecStore == InitStore /\ [][NextStore]_vars

\* The names of the entries of the store's directory
EntryNames ==
    {NameIn(FSBase, q) : q \in DOMAIN fsFiles \cup fsDirs} \ {<<>>}

\* The entries whose name starts with p
Matches(p) == {n \in EntryNames : HasPrefix(n, p)}

\* Whether entry n is a regular file holding the JSON of a thread
Decodable(n) ==
    FileIn(n) \in DOMAIN fsFiles /\ Unmarshal(fsFiles[FileIn(n)]).ok

LastOp == hist[Len(hist)]

\* C1 as stated: Load(p) returns NotFound when no entry name starts with p,
\* the single matching conversation when exactly one does, and
\* AmbiguousPrefix when two or more do, whatever the store holds.
C1_Original ==
    (hist # <<>> /\ LastOp.op = "Load") =>
        LET M == Matches(LastOp.arg)
        IN /\ M = {} => LastOp.res = Err("NotFound")
           /\ Cardinality(M) >= 2 => LastOp.res = Err("AmbiguousPrefix")
           /\ Cardinality(M) = 1 =>
                  \E n \in M : /\ Decodable(n)
                               /\ LastOp.res = Unmarshal(fsFiles[FileIn(n)])

\* C1 as amended: Load(p) returns NotFound when no entry name starts with p
\* and AmbiguousPrefix (never a conversation) when two or more do; when
\* exactly one does, it returns the conversation decoded from that entry if
\* the entry is a file that decodes, and a read or decode error otherwise.
C1_LoadByPrefix ==
    (hist # <<>> /\ LastOp.op = "Load") =>
        LET M == Matches(LastOp.arg)
        IN /\ M = {} => LastOp.res = Err("NotFound")
           /\ Cardinality(M) >= 2 => LastOp.res = Err("AmbiguousPrefix")
           /\ Cardinality(M) = 1 =>
                  \E n \in M :
                      IF Decodable(n)
                      THEN LastOp.res = Unmarshal(fsFiles[FileIn(n)])
                      ELSE LastOp.res \in {Err("ReadFailure"), Err("DecodeFailure")}

\* C1 witness: a Load whose prefix two entries share was refused as
\* ambiguous.
C1_Witness ==
    /\ hist # <<>>
    /\ LastOp.op = "Load"
    /\ Cardinality(Matches(LastOp.arg)) >= 2
    /\ LastOp.res = Err("AmbiguousPrefix")

\* A Save that succeeded followed at once by a Load of the saved identifier
SaveThenLoad ==
    /\ Len(hist) >= 2
    /\ hist[Len(hist) - 1].op = "Save"
    /\ hist[Len(hist) - 1].res.ok
    /\ LastOp.op = "Load"
    /\ LastOp.arg = hist[Len(hist) - 1].arg.ID

Saved == hist[Len(hist) - 1].arg

\* C2 as stated: after Save(c), Load(c.ID) returns a conversation with
\* identifier c.ID and c's messages in order, whatever the store held and
\* whatever c is.
C2_Original ==
    SaveThenLoad =>
        /\ LastOp.res.ok
        /\ LastOp.res.val.ID = Saved.ID
        /\ LastOp.res.val.Messages = Saved.Messages

\* Whether every string of thread t is valid UTF-8
ValidThread(t) ==
    /\ ValidUTF8(t.ID)
    /\ \A i \in DOMAIN t.Messages : ValidUTF8(t.Messages[i].Content)

\* C2 as amended: when c's strings are valid UTF-8, Save(c) succeeds and
\* afterwards the entry named c.ID + ".json" is the only entry of the store
\* whose name starts with c.ID, Load(c.ID) returns a conversation with
\* identifier c.ID and c's messages in order.
C2_SaveLoadRoundTrip ==
    (/\ SaveThenLoad
     /\ ValidThread(Saved)
     /\ Matches(Saved.ID) = {Saved.ID \o <<JsonSuffix>>}) =>
        /\ LastOp.res.ok
        /\ LastOp.res.val.ID = Saved.ID
        /\ LastOp.res.val.Messages = Saved.Messages

\* C2 witness: a thread of two messages was saved beside another entry and
\* loaded back by its full identifier.
C2_Witness ==
    /\ SaveThenLoad
    /\ Saved.Messages = HiYo
    /\ Cardinality(EntryNames) >= 2
    /\ LastOp.res = Ok(Saved)

-----------------------------------------------------------------------------
(* SpecPath: checkPath applied to every base and candidate of the bounds *)

PathChars == {Sep, ".", "a", "b"}

PathBases == { <<"/", "a", "/", "b">>, <<"/", "a">>, <<"b">>, <<"/">> }

FsInitIdle ==
    /\ fsFiles = EmptyFS
    /\ fsDirs = {}

StoreInitIdle == hist = <<>>

InitPath ==
    /\ pathBase \in PathBases
    /\ pathCand \in SeqsUpTo(PathChars, MaxPathLen)
    /\ pathRes = NoRes
    /\ FsInitIdle
    /\ StoreInitIdle
    /\ FragInitIdle
    /\ StreamInitIdle

CheckPathCall ==
    /\ pathRes = NoRes
    /\ pathRes' = checkPath(pathBase, pathCand)
    /\ UNCHANGED <<pathBase, pathCand, fsVars, storeVars, buf, fragVars, streamVars>>

NextPath == CheckPathCall

SpecPath == InitPath /\ [][NextPath]_vars


\* The components of the absolute form of p
Comps(p) == Resolve(Split(Abs(p)), <<>>)

IsSeqPrefix(a, b) == Len(a) <= Len(b) /\ SubSeq(b, 1, Len(a)) = a

\* C8: checkPath(base, candidate) succeeds (returning the absolute form) if
\* and only if the absolute form of candidate equals the absolute form of
\* base or starts with it followed by a separator; every other candidate is
\* rejected with PathViolation.  For a base other than the root this is
\* nesting component by component, so a candidate that ".." takes out of
\* base, and a sibling such as /a/ba of base /a/b, are rejected.
C8_CheckPathIff ==
    pathRes # NoRes =>
        LET absFile == Abs(pathCand)
            absBase == Abs(pathBase)
            inside == absFile = absBase \/ HasPrefix(absFile, absBase \o <<Sep>>)
        IN /\ pathRes.ok <=> inside
           /\ pathRes.ok => pathRes.val = absFile
           /\ ~pathRes.ok => pathRes.err = "PathViolation"
           /\ absBase # <<Sep>> =>
                  (pathRes.ok <=> IsSeqPrefix(Comps(pathBase), Comps(pathCand)))
           /\ (absBase = <<"/", "a", "/", "b">> /\ absFile = <<"/", "a", "/", "b", "a">>)
                  => ~pathRes.ok

\* C8 witness: the sibling /a/ba of base /a/b, reached through "..", was
\* rejected.
C8_Witness ==
    /\ pathBase = <<"/", "a", "/", "b">>
    /\ pathCand = <<".", ".", "/", "a", "/", "b", "a">>
    /\ pathRes.err = "PathViolation"

-----------------------------------------------------------------------------
(* SpecFrag: the frame of one record, cut at any set of places, is fed     *)
(* piece by piece to the reassembly step, starting from an empty buffer.   *)

FragChars == {"x", "d", "t"}

\* The records of SpecFrag: no choice or one choice, no or one citation
FragChunks ==
    { sseChunk(cs, ci) :
        cs \in {<<>>} \cup { <<sseChoice(c, FALSE)>> : c \in SeqsUpTo(FragChars, MaxFragLen) },
        ci \in { <<>>, <<"1">> } }

\* The pieces of s when it is cut after each place of cuts
RECURSIVE CutAt(_, _, _)
CutAt(s, cuts, from) ==
    IF \A k \in cuts : k < from
    THEN <<SubSeq(s, from, Len(s))>>
    ELSE LET k == CHOOSE i \in cuts : i >= from /\ \A j \in cuts : j >= from => i <= j
         IN <<SubSeq(s, from, k)>> \o CutAt(s, cuts, k + 1)

InitFrag ==
    /\ \E c \in FragChunks :
          /\ fragFrame = DataPrefix \o Ser(c)
          /\ \E cuts \in SUBSET (1..(Len(DataPrefix \o Ser(c)) - 1)) :
                fragPieces = CutAt(DataPrefix \o Ser(c), cuts, 1)
    /\ buf = <<>>
    /\ fragEmitted = <<>>
    /\ PathInitIdle
    /\ FsInitIdle
    /\ StoreInitIdle
    /\ StreamInitIdle

\* One call of processSSEChunk on the next piece
FeedPiece ==
    /\ fragPieces # <<>>
    /\ LET r == Reassemble(buf, Head(fragPieces))
       IN /\ buf' = r.buf
          /\ fragEmitted' = IF r.emitted THEN Append(fragEmitted, r.chunk)
                            ELSE fragEmitted
    /\ fragPieces' = Tail(fragPieces)
    /\ UNCHANGED <<fragFrame, pathVars, fsVars, storeVars, streamVars>>

NextFrag == FeedPiece

SpecFrag == InitFrag /\ [][NextFrag]_vars

\* The chunk emitted when the whole frame arrives at once
WholeChunk == Reassemble(<<>>, fragFrame).chunk

\* C3: once every piece of the record's frame has been fed, exactly one
\* chunk has been emitted, it equals the chunk of the whole frame, and the
\* reassembly buffer is empty, for every number of pieces and every cut.
C3_Fragmentation ==
    (fragFrame # <<>> /\ fragPieces = <<>>) =>
        /\ fragEmitted = <<WholeChunk>>
        /\ buf = <<>>

-----------------------------------------------------------------------------
(* More claims about the store, under SpecStore *)

\* The entries List is to return: the regular files named *.json that decode
ListedNames ==
    {n \in EntryNames : HasSuffix(n, <<JsonSuffix>>) /\ Decodable(n)}

\* The entries named *.json that do not decode
CorruptNames ==
    {n \in EntryNames : /\ HasSuffix(n, <<JsonSuffix>>)
                        /\ FileIn(n) \in DOMAIN fsFiles
                        /\ ~Decodable(n)}

\* C12: List never returns an error and returns exactly one conversation
\* for each entry named *.json that is a file and decodes, namely the one
\* decoded from it (in the order of the names), however many entries fail
\* to decode.
C12_ListSkipsCorrupt ==
    (hist # <<>> /\ LastOp.op = "List") =>
        LET names == SortNames(ListedNames)
        IN /\ LastOp.res.ok
           /\ Len(LastOp.res.val) = Cardinality(ListedNames)
           /\ \A i \in DOMAIN names :
                  LastOp.res.val[i] = Unmarshal(fsFiles[FileIn(names[i])]).val

\* C12 witness: List on a store holding an undecodable entry sorted before
\* a decodable one returned the decodable one.
C12_Witness ==
    /\ hist # <<>>
    /\ LastOp.op = "List"
    /\ \E c \in CorruptNames, n \in ListedNames : Less(c, n)
    /\ Len(LastOp.res.val) = 1

\* Whether path q is the store's base directory or lies below it,
\* component by component
UnderBase(q) == IsSeqPrefix(Comps(FSBase), Comps(q))

\* C13: after any sequence of Save, Load and List no file exists outside
\* the base directory, every path opened for reading and every path whose
\* content a call changed is the base directory or lies below it, and a
\* Save whose target lies outside fails with PathViolation and changes
\* nothing.
C13_NoEscape ==
    /\ \A q \in DOMAIN fsFiles : UnderBase(q)
    /\ \A i \in DOMAIN hist :
          /\ \A q \in hist[i].opened \cup hist[i].wrote : UnderBase(q)
          /\ (/\ hist[i].op = "Save"
              /\ ~UnderBase(FSBase \o <<Sep>> \o hist[i].arg.ID \o <<JsonSuffix>>)) =>
                 /\ hist[i].res = Err("PathViolation")
                 /\ hist[i].wrote = {}

\* C13 witness: a Save under the identifier "../a" was refused with
\* PathViolation, and a later Load opened a file of the store.
C13_Witness ==
    /\ Len(hist) = 2
    /\ hist[1].op = "Save"
    /\ hist[1].arg.ID = <<".", ".", "/", "a">>
    /\ hist[1].res = Err("PathViolation")
    /\ hist[2].op = "Load"
    /\ hist[2].opened # {}

-----------------------------------------------------------------------------
(* Spec: one run of "plexctl get": handleThreadLogic, the request, readSSE *)
(* with its printer goroutine, and handleCompletionResponse.               *)

\* The store when the command starts: thread "ab"; a record named "b.json"
\* whose identifier field leads out of the store; and a record named
\* "c.json" whose identifier field leads to the entry of thread "ab".
StreamFiles ==
    [q \in {FileIn(<<"a", "b", JsonSuffix>>), FileIn(<<"b", JsonSuffix>>),
            FileIn(<<"c", JsonSuffix>>)} |->
        IF q = FileIn(<<"a", "b", JsonSuffix>>)
        THEN Marshal(Thread(<<"a", "b">>, HiYo))
        ELSE IF q = FileIn(<<"b", JsonSuffix>>)
        THEN Marshal(Thread(<<".", ".", "/", "b">>, <<Message("user", <<"h">>)>>))
        ELSE Marshal(Thread(<<"b", "/", ".", ".", "/", "a", "b">>,
                            <<Message("user", <<"h">>)>>))]

\* --thread values: none, thread "ab", the escaping record, the aliasing
\* record, no match
CallPrefixes == { <<>>, <<"a">>, <<"b">>, <<"c">>, <<"n">> }

\* The user's query
Query == <<"h", "i">>

\* Values of newThreadID, a base58 hash of the query and the clock
NewIds == { <<"n">> }

\* The frames the transport may deliver
FrameOf(chunk) == DataPrefix \o Ser(chunk)

fHe == FrameOf(sseChunk(<<sseChoice(<<"H", "e">>, FALSE)>>, <<>>))
fLlo == FrameOf(sseChunk(<<sseChoice(<<"l", "l", "o">>, FALSE)>>, <<>>))
fCitAB == FrameOf(sseChunk(<<sseChoice(<<"x">>, FALSE)>>, <<"1", "2">>))
fCitC == FrameOf(sseChunk(<<>>, <<"3">>))
fFin == FrameOf(sseChunk(<<sseChoice(<<"o">>, TRUE)>>, <<>>))
fEmptyRec == FrameOf(sseChunk(<<>>, <<>>))
fPart1 == <<"d", "t", "{", "(", "e">>
fPart2 == <<")", "}">>
fDone == DataPrefix \o <<Sentinel>>

\* A frame that holds a whole record and the sentinel
fHeDone == fHe \o <<Sentinel>>

\* A frame whose payload is no part of a record, such as a keep-alive
fNoise == DataPrefix \o <<"x">>

StreamFrames ==
    { <<>>, fHe, fLlo, fCitAB, fCitC, fFin, fEmptyRec, fPart1, fPart2, fDone,
      fHeDone, fNoise }

\* What reader.ReadEvent() returns: a frame, end of transport, or an error
ReadEvents ==
    { [raw |-> f, err |-> "nil"] : f \in StreamFrames }
        \cup { [raw |-> <<>>, err |-> "EOF"], [raw |-> <<>>, err |-> "other"] }

\* A plausible slip: every read error is taken for the end of the transport.
checkEventEndErrIsEOF(raw, err) ==
    IF err # "nil" THEN [done |-> TRUE, err |-> "nil"]
    ELSE IF \E k \in DOMAIN raw : raw[k] = Sentinel
         THEN [done |-> TRUE, err |-> "nil"]
         ELSE [done |-> FALSE, err |-> "nil"]

\* A plausible slip: the sentinel is not looked for.
checkEventEndNoSentinel(raw, err) ==
    IF err = "EOF" THEN [done |-> TRUE, err |-> "nil"]
    ELSE IF err # "nil" THEN [done |-> TRUE, err |-> "SSE read"]
    ELSE [done |-> FALSE, err |-> "nil"]

\* checkEventEnd, main.go 540-563
checkEventEnd(raw, err) ==
    IF err = "EOF" THEN [done |-> TRUE, err |-> "nil"]
    ELSE IF err # "nil" THEN [done |-> TRUE, err |-> "SSE read"]
    ELSE IF \E k \in DOMAIN raw : raw[k] = Sentinel
         THEN [done |-> TRUE, err |-> "nil"]
         ELSE [done |-> FALSE, err |-> "nil"]

\* newThreadID, main.go 202-208: h is the hash drawn for this call
newThreadID(messages, h) == h

\* A plausible slip: a continued thread starts again from the new query.
handleThreadLogicForgets(idPrefix, userQuery, h) ==
    IF idPrefix # <<>>
    THEN LET l == Load(idPrefix)
         IN IF ~l.ok THEN l
            ELSE Ok(Thread(l.val.ID, <<Message("user", userQuery)>>))
    ELSE LET ms == <<Message("user", userQuery)>>
         IN Ok(Thread(newThreadID(ms, h), ms))

\* A plausible slip: the query is not appended to a continued thread.
handleThreadLogicNoAppend(idPrefix, userQuery, h) ==
    IF idPrefix # <<>>
    THEN Load(idPrefix)
    ELSE LET ms == <<Message("user", userQuery)>>
         IN Ok(Thread(newThreadID(ms, h), ms))

\* handleThreadLogic, main.go 322-337
handleThreadLogic(idPrefix, userQuery, h) ==
    IF idPrefix # <<>>
    THEN LET l == Load(idPrefix)
         IN IF ~l.ok THEN l
            ELSE Ok(Thread(l.val.ID,
                           Append(l.val.Messages, Message("user", userQuery))))
    ELSE LET ms == <<Message("user", userQuery)>>
         IN Ok(Thread(newThreadID(ms, h), ms))

InitStream ==
    /\ fsFiles = StreamFiles
    /\ fsDirs = BaseDirs
    /\ hist = <<>>
    /\ PathInitIdle
    /\ buf = <<>>
    /\ fragFrame = <<>>
    /\ fragPieces = <<>>
    /\ fragEmitted = <<>>
    /\ pc = "start"
    /\ th = Thread(<<>>, <<>>)
    /\ final = <<>>
    /\ finalCitations = <<>>
    /\ pending = <<>>
    /\ exit = "none"
    /\ sseRet = NoRet
    /\ callErr = "pending"
    /\ citationsOut = <<>>
    /\ charCh = <<>>
    /\ chClosed = FALSE
    /\ ctxDone = FALSE
    /\ ppc = "off"
    /\ display = <<>>
    /\ nRead = 0
    /\ lastEv = NoEvent
    /\ decoded = <<>>
    /\ pushed = <<>>
    /\ queuedAtClose = 0
    /\ reqMessages = <<>>
    /\ filesBefore = StreamFiles
    /\ loadedFrom = {}

otherVars == <<pathVars, storeVars, fragVars>>

\* RunE of "get", main.go 222-227
StartCall ==
    /\ pc = "start"
    /\ \E idPrefix \in CallPrefixes, h \in NewIds :
          LET r == handleThreadLogic(idPrefix, Query, h)
          IN /\ loadedFrom' = IF idPrefix # <<>> THEN LoadOpens(idPrefix) ELSE {}
             /\ IF ~r.ok
                THEN /\ pc' = "done"
                     /\ callErr' = r.err
                     /\ UNCHANGED <<th, reqMessages>>
                ELSE /\ pc' = "request"
                     /\ th' = r.val
                     /\ reqMessages' = r.val.Messages
                     /\ UNCHANGED callErr
    /\ filesBefore' = fsFiles
    /\ UNCHANGED <<final, finalCitations, pending, exit, sseRet, citationsOut,
                   chanVars, nRead, lastEv, decoded, pushed, queuedAtClose,
                   fsVars, buf, otherVars>>

\* doCompletionRequest, main.go 436-442, then the start of readSSE, main.go
\* 351-363: the channel is made and the printer goroutine started.
Request ==
    /\ pc = "request"
    /\ \E ok \in BOOLEAN :
          IF ok
          THEN /\ pc' = "read"
               /\ ppc' = "select"
               /\ UNCHANGED callErr
          ELSE /\ pc' = "done"
               /\ callErr' = "RequestFailure"
               /\ UNCHANGED ppc
    /\ UNCHANGED <<th, final, finalCitations, pending, exit, sseRet, citationsOut,
                   charCh, chClosed, ctxDone, display, seenVars,
                   fsVars, buf, otherVars>>

\* A chunk's text: the content of its first choice
ChunkText(chunk) ==
    IF Len(chunk.Choices) = 0 THEN <<>> ELSE chunk.Choices[1].Content

\* A plausible slip: the lists are merged.
NewCitationsMerged(old, chunk) == old \o chunk.Citations

\* main.go 408-410: a non-empty list replaces the working list.
NewCitations(old, chunk) ==
    IF Len(chunk.Citations) > 0 THEN chunk.Citations ELSE old

\* A plausible slip: the text of the last chunk replaces the text so far.
NewFinalReplaced(old, txt) == txt

\* final.WriteString(txt), main.go 415
NewFinal(old, txt) == old \o txt

\* One turn of readSSE's loop, main.go 365-383: ReadEvent, checkEventEnd,
\* and processSSEChunk up to its loop over the runes of txt.
\* ev is what reader.ReadEvent() returned this turn.
ReadEventOf(ev) ==
    /\ pc = "read"
    /\ LET ce == checkEventEnd(ev.raw, ev.err)
           r == Reassemble(buf, ev.raw)
           txt == ChunkText(r.chunk)
       IN /\ (nRead < MaxFrames \/ ce.done)
          /\ nRead' = nRead + 1
          /\ lastEv' = ev
          /\ IF ce.err # "nil"
             THEN /\ pc' = "close"
                  /\ exit' = "readErr"
                  /\ UNCHANGED <<buf, final, finalCitations, pending, decoded>>
             ELSE IF ce.done
             THEN /\ pc' = "close"
                  /\ exit' = "ok"
                  /\ UNCHANGED <<buf, final, finalCitations, pending, decoded>>
             ELSE /\ buf' = r.buf
                  /\ decoded' = IF r.emitted THEN Append(decoded, r.chunk)
                                ELSE decoded
                  /\ finalCitations' = IF r.emitted
                                       THEN NewCitations(finalCitations, r.chunk)
                                       ELSE finalCitations
                  /\ final' = IF r.emitted THEN NewFinal(final, txt) ELSE final
                  /\ pending' = txt
                  /\ pc' = IF txt # <<>> THEN "send" ELSE "read"
                  /\ UNCHANGED exit
    /\ UNCHANGED <<th, sseRet, callErr, citationsOut, chanVars, pushed,
                   queuedAtClose, reqMessages, filesBefore, loadedFrom, fsVars,
                   otherVars>>

ReadEvent == \E ev \in ReadEvents : ReadEventOf(ev)

\* A plausible slip: the channel takes a rune whatever it holds.
ChanCanSendAlways(ch) == TRUE

\* charCh <- r on the channel made at main.go 362: a send goes through
\* when fewer than smoothPrintBufferSize runes are queued.
ChanCanSend(ch) == Len(ch) < smoothPrintBufferSize

\* The select of processSSEChunk, main.go 417-423, for the next rune: it is
\* sent when the channel has room, and the call gives up with ctx.Err()
\* when the context is done.
SendRune ==
    /\ pc = "send"
    /\ \E branch \in {"send", "ctx"} :
          /\ branch = "send" => ChanCanSend(charCh)
          /\ branch = "ctx" => ctxDone
          /\ IF branch = "send"
             THEN /\ charCh' = Append(charCh, Head(pending))
                  /\ pushed' = Append(pushed, Head(pending))
                  /\ pending' = Tail(pending)
                  /\ pc' = IF Tail(pending) = <<>> THEN "read" ELSE "send"
                  /\ UNCHANGED exit
             ELSE /\ pc' = "close"
                  /\ exit' = "ctxErr"
                  /\ UNCHANGED <<charCh, pushed, pending>>
    /\ UNCHANGED <<th, final, finalCitations, sseRet, callErr, citationsOut,
                   chClosed, ctxDone, ppc, display, nRead, lastEv, decoded,
                   queuedAtClose, reqMessages, filesBefore, loadedFrom, fsVars, buf,
                   otherVars>>

\* A plausible slip: the loop goes on after the channel was closed.
CloseChKeepsReading ==
    /\ pc = "close"
    /\ chClosed' = TRUE
    /\ queuedAtClose' = Len(charCh)
    /\ pc' = "read"
    /\ UNCHANGED <<th, final, finalCitations, pending, exit, sseRet, callErr,
                   citationsOut, charCh, ctxDone, ppc, display, nRead, lastEv,
                   decoded, pushed, reqMessages, filesBefore, loadedFrom, fsVars, buf,
                   otherVars>>

\* close(charCh), main.go 369, 374, 379
CloseCh ==
    /\ pc = "close"
    /\ chClosed' = TRUE
    /\ queuedAtClose' = Len(charCh)
    /\ pc' = "wait"
    /\ UNCHANGED <<th, final, finalCitations, pending, exit, sseRet, callErr,
                   citationsOut, charCh, ctxDone, ppc, display, nRead, lastEv,
                   decoded, pushed, reqMessages, filesBefore, loadedFrom, fsVars, buf,
                   otherVars>>

\* A plausible slip: readSSE returns without waiting for the printer.
JoinReadyNoWait == TRUE

\* wg.Wait() returns once the printer goroutine has called wg.Done().
JoinReady == ppc = "done"

\* wg.Wait() and the return of readSSE, main.go 370-381; the deferred
\* cancel() runs as it returns.
WaitJoin ==
    /\ pc = "wait"
    /\ JoinReady
    /\ sseRet' = IF exit = "ok"
                 THEN [text |-> final, citations |-> finalCitations, err |-> "nil"]
                 ELSE [text |-> <<>>, citations |-> <<>>, err |-> exit]
    /\ ctxDone' = TRUE
    /\ pc' = "returned"
    /\ UNCHANGED <<th, final, finalCitations, pending, exit, callErr, citationsOut,
                   charCh, chClosed, ppc, display, seenVars, fsVars, buf, otherVars>>

\* A plausible slip: the thread is saved whatever the text.
ShouldSaveAlways(finalContent) == TRUE

\* main.go 498
ShouldSave(finalContent) == finalContent # <<>>

\* A plausible slip: the error of Save is dropped.
SaveOutcomeIgnored(res) == "nil"

\* main.go 501-503: the error handleCompletionResponse returns after Save
SaveOutcome(res) == IF res.ok THEN "nil" ELSE "save thread"

\* streamCompletion after readSSE, main.go 443-447, and
\* handleCompletionResponse, main.go 492-512
Finish ==
    /\ pc = "returned"
    /\ pc' = "done"
    /\ IF sseRet.err # "nil"
       THEN /\ callErr' = "read SSE"
            /\ UNCHANGED <<th, fsFiles, citationsOut>>
       ELSE IF ShouldSave(sseRet.text)
       THEN LET t2 == Thread(th.ID,
                             Append(th.Messages, Message("assistant", sseRet.text)))
                sv == Save(t2)
            IN /\ th' = t2
               /\ fsFiles' = sv.files
               /\ callErr' = SaveOutcome(sv.res)
               /\ IF ~sv.res.ok
                  THEN UNCHANGED citationsOut
                  ELSE citationsOut' = sseRet.citations
       ELSE /\ callErr' = "nil"
            /\ citationsOut' = sseRet.citations
            /\ UNCHANGED <<th, fsFiles>>
    /\ UNCHANGED <<final, finalCitations, pending, exit, sseRet, chanVars,
                   seenVars, fsDirs, buf, otherVars>>

\* A plausible slip: the closing of the channel is never seen by a receive.
ChanRecvMissesClose(ch, closed) ==
    IF ch # <<>>
    THEN [ready |-> TRUE, ok |-> TRUE, val |-> Head(ch), rest |-> Tail(ch)]
    ELSE [ready |-> FALSE, ok |-> FALSE, val |-> "", rest |-> ch]

\* A plausible slip: a closed channel gives nothing more, queued or not.
ChanRecvDropOnClose(ch, closed) ==
    IF closed THEN [ready |-> TRUE, ok |-> FALSE, val |-> "", rest |-> ch]
    ELSE IF ch # <<>>
         THEN [ready |-> TRUE, ok |-> TRUE, val |-> Head(ch), rest |-> Tail(ch)]
         ELSE [ready |-> FALSE, ok |-> FALSE, val |-> "", rest |-> ch]

\* r, ok := <-charCh, main.go 529: the oldest queued rune; ok is false only
\* when the channel is closed and empty; not ready when open and empty.
ChanRecv(ch, closed) ==
    IF ch # <<>>
    THEN [ready |-> TRUE, ok |-> TRUE, val |-> Head(ch), rest |-> Tail(ch)]
    ELSE IF closed
         THEN [ready |-> TRUE, ok |-> FALSE, val |-> "", rest |-> ch]
         ELSE [ready |-> FALSE, ok |-> FALSE, val |-> "", rest |-> ch]

\* The select of the printer goroutine, main.go 526-533, and the print of
\* the rune received
PrinterSelect ==
    /\ ppc = "select"
    /\ \E branch \in {"recv", "ctx"} :
          LET rv == ChanRecv(charCh, chClosed)
          IN /\ branch = "recv" => rv.ready
             /\ branch = "ctx" => ctxDone
             /\ IF branch = "recv" /\ rv.ok
                THEN /\ display' = Append(display, rv.val)
                     /\ charCh' = rv.rest
                     /\ ppc' = "tick"
                ELSE /\ ppc' = "done"
                     /\ UNCHANGED <<display, charCh>>
    /\ UNCHANGED <<ctlVars, chClosed, ctxDone, seenVars, fsVars, buf, otherVars>>

\* <-tick.C, main.go 534
PrinterTick ==
    /\ ppc = "tick"
    /\ ppc' = "select"
    /\ UNCHANGED <<ctlVars, charCh, chClosed, ctxDone, display, seenVars,
                   fsVars, buf, otherVars>>

Next ==
    \/ StartCall
    \/ Request
    \/ ReadEvent
    \/ SendRune
    \/ CloseCh
    \/ WaitJoin
    \/ Finish
    \/ PrinterSelect
    \/ PrinterTick

Spec == InitStream /\ [][Next]_vars

-----------------------------------------------------------------------------
(* Claims about the streaming call *)

\* readSSE has returned to streamCompletion.
Returned == pc \in {"returned", "done"} /\ sseRet # NoRet

\* The call is over and readSSE ended cleanly.
CleanEnd == pc = "done" /\ sseRet.err = "nil"

\* C4: the runes shown and the runes still queued are, in order, the runes
\* pushed, at every moment; and when the stream ends gracefully (the channel
\* closed, the context not cancelled) the printer has, when it terminates,
\* shown exactly the pushed sequence and left nothing in the queue.
C4_PacedOrder ==
    /\ pushed = display \o charCh
    /\ (ppc = "done" /\ exit = "ok") => (display = pushed /\ charCh = <<>>)

\* C4 witness: a graceful end at which two runes were still queued when the
\* channel was closed, all shown by the time the printer terminated.
C4_Witness ==
    /\ ppc = "done"
    /\ exit = "ok"
    /\ queuedAtClose >= 2
    /\ Len(pushed) >= 3
    /\ display = pushed

\* C5: whenever readSSE has returned, on any exit path, the printer
\* goroutine has terminated.
C5_JoinBeforeReturn ==
    (pc \in {"returned", "done"} /\ ppc # "off") => ppc = "done"

\* C5 witness: readSSE returned a read error while runes were queued, and
\* the printer had finished.
C5_Witness ==
    /\ pc = "returned"
    /\ exit = "readErr"
    /\ queuedAtClose >= 1
    /\ ppc = "done"

\* The content delta of a decoded chunk
ContentDelta(chunk) ==
    IF chunk.Choices = <<>> THEN <<>> ELSE Head(chunk.Choices).Content

RECURSIVE ConcatDeltas(_)
ConcatDeltas(chunks) ==
    IF chunks = <<>> THEN <<>>
    ELSE ContentDelta(Head(chunks)) \o ConcatDeltas(Tail(chunks))

\* The record stored in the entry that Save writes for identifier id
StoredThread(id) ==
    IF Join(FSBase, id \o <<JsonSuffix>>) \in DOMAIN fsFiles
    THEN Unmarshal(fsFiles[Join(FSBase, id \o <<JsonSuffix>>)])
    ELSE Err("NotFound")

cHe == sseChunk(<<sseChoice(<<"H", "e">>, FALSE)>>, <<>>)
cLlo == sseChunk(<<sseChoice(<<"l", "l", "o">>, FALSE)>>, <<>>)
Hello == <<"H", "e", "l", "l", "o">>

\* C6: after a clean end the returned text is the concatenation, in order,
\* of the content deltas of the chunks decoded, and when it is non-empty
\* and the call succeeds the record persisted is the request's messages
\* followed by one assistant message with that text; the chunks "He" and
\* "llo" for the request [{user, "hi"}] give "Hello", no citations, and
\* the record [{user, "hi"}, {assistant, "Hello"}].
C6_FinalText ==
    CleanEnd =>
        /\ sseRet.text = ConcatDeltas(decoded)
        /\ (sseRet.text # <<>> /\ callErr = "nil") =>
               /\ StoredThread(th.ID).ok
               /\ StoredThread(th.ID).val.Messages =
                      Append(reqMessages, Message("assistant", sseRet.text))
        /\ (decoded = <<cHe, cLlo>> /\ reqMessages = <<Message("user", Query)>>) =>
               /\ sseRet.text = Hello
               /\ sseRet.citations = <<>>
               /\ callErr = "nil"
               /\ StoredThread(th.ID).val.Messages =
                      <<Message("user", Query), Message("assistant", Hello)>>

\* C6 witness: the call of the example is over.
C6_Witness ==
    /\ CleanEnd
    /\ decoded = <<cHe, cLlo>>
    /\ reqMessages = <<Message("user", Query)>>
    /\ sseRet.text = Hello
    /\ StoredThread(th.ID).ok

\* The citation list of the last chunk that has one, <<>> when none has
RECURSIVE LastCitations(_)
LastCitations(chunks) ==
    IF chunks = <<>> THEN <<>>
    ELSE IF chunks[Len(chunks)].Citations # <<>>
         THEN chunks[Len(chunks)].Citations
         ELSE LastCitations(SubSeq(chunks, 1, Len(chunks) - 1))

\* C7: the working citation list is at every moment the list of the last
\* decoded chunk whose list was non-empty (empty when there was none), and
\* a clean end returns it: a later list replaces an earlier one and a chunk
\* without citations changes nothing.
C7_CitationsReplace ==
    /\ finalCitations = LastCitations(decoded)
    /\ (Returned /\ sseRet.err = "nil") => sseRet.citations = LastCitations(decoded)

\* C7 witness: a chunk citing 1, 2, then a chunk citing 3, then a chunk
\* citing nothing, and the call returned exactly 3.
C7_Witness ==
    /\ Returned
    /\ sseRet.err = "nil"
    /\ Len(decoded) = 3
    /\ decoded[1].Citations = <<"1", "2">>
    /\ decoded[2].Citations = <<"3">>
    /\ decoded[3].Citations = <<>>
    /\ sseRet.citations = <<"3">>

\* C9: a call that ends cleanly with empty text leaves the store as it was
\* when the call began, and reports success.
C9_EmptyNotSaved ==
    (CleanEnd /\ sseRet.text = <<>>) =>
        /\ fsFiles = filesBefore
        /\ callErr = "nil"

\* C9 witness: a call that decoded a chunk, ended cleanly with empty text
\* and reported success.
C9_Witness ==
    /\ CleanEnd
    /\ sseRet.text = <<>>
    /\ decoded # <<>>
    /\ callErr = "nil"
    /\ fsFiles = filesBefore

\* Whether a chunk carries a non-empty finish_reason
HasFinish(chunk) == \E k \in DOMAIN chunk.Choices : chunk.Choices[k].FinishReason

\* The chunks up to and including the first one with a finish_reason
RECURSIVE UpToFinish(_)
UpToFinish(chunks) ==
    IF chunks = <<>> THEN <<>>
    ELSE IF HasFinish(Head(chunks)) THEN <<Head(chunks)>>
         ELSE <<Head(chunks)>> \o UpToFinish(Tail(chunks))

\* C10: a chunk with a non-empty finish_reason ends the call: no chunk is
\* decoded after it, and the text and citations returned are those
\* accumulated up to and including it.
C10_FinishEndsStream ==
    /\ decoded = UpToFinish(decoded)
    /\ CleanEnd =>
           /\ sseRet.text = ConcatDeltas(UpToFinish(decoded))
           /\ sseRet.citations = LastCitations(UpToFinish(decoded))

\* readSSE makes its context itself (main.go 358) and cancels it only in the
\* deferred call that runs as it returns: the context is never done while
\* the loop, the close or the join is running.
CancelOnlyOnReturn ==
    ctxDone => pc \in {"returned", "done"}

\* C15: when a frame read fails with an error other than end of transport,
\* no further frame is read; readSSE returns, after the printer goroutine
\* has finished, no text, no citations and an error; and the call ends with
\* the one error "read SSE" (not the nil of a clean end), the thread in
\* memory still the request's messages and the store as it was before the
\* call.
C15_ReadErrorFails ==
    (lastEv.err = "other") =>
        /\ pc \in {"close", "wait", "returned", "done"}
        /\ Returned =>
               /\ ppc = "done"
               /\ sseRet = [text |-> <<>>, citations |-> <<>>, err |-> "readErr"]
        /\ pc = "done" =>
               /\ callErr = "read SSE"
               /\ citationsOut = <<>>
               /\ th.Messages = reqMessages
               /\ fsFiles = filesBefore

\* C15 witness: a call that had accumulated text and citations when the
\* read failed ended with the error.
C15_Witness ==
    /\ pc = "done"
    /\ lastEv.err = "other"
    /\ final # <<>>
    /\ finalCitations # <<>>
    /\ callErr = "read SSE"

\* The payload of a frame, and whether it is one whole record
Payload(raw) == appendSSEChunk(<<>>, raw, IndexData(raw))

WholeRecord(raw) == raw # <<>> /\ Decode(Payload(raw)).ok

\* Whether the reassembly buffer holds nothing but payloads of noise frames
OnlyNoise(b) == \A i \in DOMAIN b : b[i] = Payload(fNoise)[1]

\* C16: a noise frame is not an error and the loop goes on; and a frame
\* holding one whole record, read when nothing but noise (or nothing) came
\* since the last record, is decoded: its chunk is emitted and its content
\* appended to the text.
C16_NoiseTolerated ==
    [][(nRead' = nRead + 1 /\ lastEv'.err = "nil") =>
          /\ lastEv'.raw = fNoise => (pc' = "read" /\ exit' = "none")
          /\ (WholeRecord(lastEv'.raw) /\ OnlyNoise(buf)) =>
                 /\ decoded' = Append(decoded, Decode(Payload(lastEv'.raw)).val)
                 /\ final' = final \o ContentDelta(Decode(Payload(lastEv'.raw)).val)
      ]_vars

\* Whether an event is a frame containing the sentinel, or the end of the
\* transport
SentinelFrame(ev) == ev.err = "nil" /\ \E k \in DOMAIN ev.raw : ev.raw[k] = Sentinel

EndEvent(ev) == ev.err = "EOF" \/ SentinelFrame(ev)

\* C17: the read of a frame containing the sentinel, and likewise the end
\* of the transport, ends the loop cleanly and changes neither the text,
\* the citations, the reassembly buffer, the chunks decoded nor the runes
\* pushed; no event is read after it; and readSSE then returns success
\* with exactly the text and citations accumulated.
C17_SentinelEnds ==
    [][/\ (nRead' = nRead + 1 /\ EndEvent(lastEv')) =>
             /\ pc' = "close"
             /\ exit' = "ok"
             /\ UNCHANGED <<final, finalCitations, buf, decoded, pushed>>
       /\ EndEvent(lastEv) =>
             UNCHANGED <<nRead, lastEv, final, finalCitations, buf, decoded, pushed>>
       /\ (EndEvent(lastEv') /\ pc' = "returned") =>
             sseRet' = [text |-> final', citations |-> finalCitations',
                        err |-> "nil"]
      ]_vars

\* C17 witness: the second frame read held a record and the sentinel; the
\* call ended with success and the text and citations of the first frame.
C17_Witness ==
    /\ pc = "done"
    /\ lastEv = [raw |-> fHeDone, err |-> "nil"]
    /\ nRead = 2
    /\ decoded = <<sseChunk(<<sseChoice(<<"x">>, FALSE)>>, <<"1", "2">>)>>
    /\ sseRet = [text |-> <<"x">>, citations |-> <<"1", "2">>, err |-> "nil"]
    /\ buf = <<>>
    /\ callErr = "nil"

\* C18: when readSSE ended cleanly with non-empty text and Save fails, the
\* call ends with the error "save thread"; and that error is produced only
\* after streaming is over: from the return of readSSE on, the printer
\* goroutine has finished, every rune of the text has been shown and the
\* channel is empty.
C18_SaveErrorAfterStream ==
    /\ (pc = "done" /\ sseRet.err = "nil" /\ sseRet.text # <<>> /\ ~Save(th).res.ok) =>
           callErr = "save thread"
    /\ (Returned /\ sseRet.err = "nil") =>
           (ppc = "done" /\ display = sseRet.text /\ charCh = <<>>)
    /\ callErr = "save thread" =>
           /\ sseRet.err = "nil"
           /\ sseRet.text # <<>>
           /\ ppc = "done"
           /\ display = sseRet.text

\* C18 witness: a call on the record whose identifier leads out of the
\* store streamed "Hello", showed it, and then failed to save.
C18_Witness ==
    /\ pc = "done"
    /\ callErr = "save thread"
    /\ sseRet.text = Hello
    /\ display = Hello
    /\ ppc = "done"
    /\ fsFiles = filesBefore

\* The entry named id + ".json" in the store's directory
EntryOf(id) == FileIn(id \o <<JsonSuffix>>)

NoSep(id) == \A i \in DOMAIN id : id[i] # Sep

\* The step is the end of a successful turn on a thread loaded from the
\* store.
ContinuedTurn ==
    /\ pc = "returned"
    /\ pc' = "done"
    /\ callErr' = "nil"
    /\ sseRet.text # <<>>
    /\ loadedFrom # {}

\* The messages of the record in entry q before the step, followed by the
\* turn's two messages
TurnAppended(q) ==
    Unmarshal(fsFiles[q]).val.Messages
        \o <<Message("user", Query), Message("assistant", sseRet.text)>>

\* C19 as stated: a step changes no entry but the one named th.ID + ".json",
\* and a successful continuation turn overwrites that entry, its new
\* messages being the ones it held before followed by the new user message
\* and the new assistant message, whatever the identifier.
C19_Original ==
    [][/\ Changed(fsFiles, fsFiles') \subseteq {EntryOf(th'.ID)}
       /\ ContinuedTurn =>
             /\ EntryOf(th.ID) \in DOMAIN fsFiles
             /\ Unmarshal(fsFiles'[EntryOf(th.ID)]).val.Messages
                    = TurnAppended(EntryOf(th.ID))
      ]_vars

\* C19 as amended: for a thread whose identifier holds no path separator, a
\* step changes no entry but the one named th.ID + ".json"; and a successful
\* continuation turn on a thread loaded from that entry overwrites it with
\* the same identifier, its new messages being the ones it held before, in
\* order, followed by the new user message and the new assistant message.
C19_SaveFrame ==
    [][NoSep(th'.ID) =>
          /\ Changed(fsFiles, fsFiles') \subseteq {EntryOf(th'.ID)}
          /\ (ContinuedTurn /\ loadedFrom = {EntryOf(th.ID)}) =>
                 /\ Unmarshal(fsFiles'[EntryOf(th.ID)]).val.ID = th.ID
                 /\ Unmarshal(fsFiles'[EntryOf(th.ID)]).val.Messages
                        = TurnAppended(EntryOf(th.ID))
      ]_vars

\* C19 witness: a successful continuation of thread "ab" left the other
\* entries as they were and stored the old messages followed by the query
\* and the answer "Hello".
C19_Witness ==
    /\ pc = "done"
    /\ callErr = "nil"
    /\ th.ID = <<"a", "b">>
    /\ loadedFrom = {EntryOf(<<"a", "b">>)}
    /\ Changed(filesBefore, fsFiles) = {EntryOf(<<"a", "b">>)}
    /\ Unmarshal(fsFiles[EntryOf(<<"a", "b">>)]).val.Messages =
           HiYo \o <<Message("user", Query), Message("assistant", Hello)>>

\* C21: at every moment the runes shown followed by the runes queued are
\* the beginning of the accumulated text, in its order, and no more than
\* smoothPrintBufferSize runes are queued.
C21_DisplayPrefix ==
    /\ IsSeqPrefix(display \o charCh, final)
    /\ Len(charCh) <= smoothPrintBufferSize

\* C21 witness: some runes are shown, the channel is full, and more of the
\* accumulated text is still to be pushed.
C21_Witness ==
    /\ display # <<>>
    /\ Len(charCh) = smoothPrintBufferSize
    /\ Len(final) > Len(display) + Len(charCh)
    /\ pc = "send"

\* C22: the channel is closed by the control task's close step only, that
\* step is taken on an open channel only (so there is no second close),
\* a closed channel stays closed and no rune is sent on it, and the channel
\* is closed when readSSE returns, on every exit path.
C22_ClosedOnce ==
    [][/\ (chClosed' /\ ~chClosed) => (pc = "close" /\ pc' = "wait")
       /\ (pc = "close" /\ pc' # pc) => (~chClosed /\ chClosed')
       /\ chClosed =>
             /\ chClosed'
             /\ pushed' = pushed
             /\ Len(charCh') <= Len(charCh)
       /\ pc' = "returned" => chClosed'
      ]_vars

\* C22 witness: readSSE returned after a read error, the channel closed
\* with runes in it that had been sent before the close.
C22_Witness ==
    /\ pc = "done"
    /\ exit = "readErr"
    /\ chClosed
    /\ queuedAtClose = smoothPrintBufferSize
    /\ charCh = <<>>

-----------------------------------------------------------------------------
(* SpecLive: the streaming call under the scheduling Go gives it: a        *)
(* goroutine that can run does run, and the ticker fires.  Nothing is      *)
(* assumed of the transport, which delivers bursts longer than the channel *)
(* is deep, frames without text, its end, or an error.                     *)

LiveEvents ==
    { [raw |-> fLlo, err |-> "nil"], [raw |-> fCitC, err |-> "nil"],
      [raw |-> fDone, err |-> "nil"],
      [raw |-> <<>>, err |-> "EOF"], [raw |-> <<>>, err |-> "other"] }

LiveReadEvent == \E ev \in LiveEvents : ReadEventOf(ev)

NextLive ==
    \/ StartCall
    \/ Request
    \/ LiveReadEvent
    \/ SendRune
    \/ CloseCh
    \/ WaitJoin
    \/ Finish
    \/ PrinterSelect
    \/ PrinterTick

Fairness ==
    /\ WF_vars(SendRune)
    /\ WF_vars(CloseCh)
    /\ WF_vars(WaitJoin)
    /\ WF_vars(PrinterSelect)
    /\ WF_vars(PrinterTick)

SpecLive == InitStream /\ [][NextLive]_vars /\ Fairness

\* C14: no rune of the accumulated text is dropped (the text is what was
\* pushed followed by what is still to be pushed), and the control task
\* never hangs: whenever it is sending a chunk's runes, full channel or
\* not, or has left the loop (end of transport, sentinel, read error or
\* cancellation outcome) and is closing the channel or waiting for the
\* printer, it eventually is back at reading the next frame or readSSE has
\* returned.
C14_NoDropNoHang ==
    /\ [](exit # "ctxErr" => final = pushed \o pending)
    /\ (pc \in {"send", "close", "wait"}) ~> (pc = "read" \/ Returned)

\* C14 witness: the producer waits with a rune in hand on a full channel.
C14_Witness ==
    /\ pc = "send"
    /\ pending # <<>>
    /\ Len(charCh) = smoothPrintBufferSize

-----------------------------------------------------------------------------
(* SpecCalls: runs of "plexctl get" one after the other, on a store that   *)
(* is empty before the first.  hist records each finished run.             *)

\* What the transport delivers in SpecCalls
CallEvents ==
    { [raw |-> fHe, err |-> "nil"], [raw |-> fCitC, err |-> "nil"],
      [raw |-> <<>>, err |-> "EOF"], [raw |-> <<>>, err |-> "other"] }

InitCalls ==
    /\ fsFiles = EmptyFS
    /\ fsDirs = BaseDirs
    /\ hist = <<>>
    /\ PathInitIdle
    /\ FragInitIdle
    /\ pc = "start"
    /\ th = Thread(<<>>, <<>>)
    /\ final = <<>>
    /\ finalCitations = <<>>
    /\ pending = <<>>
    /\ exit = "none"
    /\ sseRet = NoRet
    /\ callErr = "pending"
    /\ citationsOut = <<>>
    /\ charCh = <<>>
    /\ chClosed = FALSE
    /\ ctxDone = FALSE
    /\ ppc = "off"
    /\ display = <<>>
    /\ nRead = 0
    /\ lastEv = NoEvent
    /\ decoded = <<>>
    /\ pushed = <<>>
    /\ queuedAtClose = 0
    /\ reqMessages = <<>>
    /\ filesBefore = EmptyFS
    /\ loadedFrom = {}

CallsReadEvent == \E ev \in CallEvents : ReadEventOf(ev)

\* The process has exited and the command is run again: everything but the
\* store starts afresh.
NextCall ==
    /\ pc = "done"
    /\ Len(hist) + 1 < MaxCalls
    /\ hist' = Append(hist, [op |-> "get", arg |-> th.ID,
                              res |-> IF callErr = "nil" THEN Ok(sseRet.text)
                                      ELSE Err(callErr),
                              opened |-> loadedFrom,
                              wrote |-> Changed(filesBefore, fsFiles)])
    /\ pc' = "start"
    /\ th' = Thread(<<>>, <<>>)
    /\ final' = <<>>
    /\ finalCitations' = <<>>
    /\ pending' = <<>>
    /\ exit' = "none"
    /\ sseRet' = NoRet
    /\ callErr' = "pending"
    /\ citationsOut' = <<>>
    /\ charCh' = <<>>
    /\ chClosed' = FALSE
    /\ ctxDone' = FALSE
    /\ ppc' = "off"
    /\ display' = <<>>
    /\ nRead' = 0
    /\ lastEv' = NoEvent
    /\ decoded' = <<>>
    /\ pushed' = <<>>
    /\ queuedAtClose' = 0
    /\ reqMessages' = <<>>
    /\ filesBefore' = fsFiles
    /\ loadedFrom' = {}
    /\ buf' = <<>>
    /\ UNCHANGED <<fsVars, pathVars, fragVars>>

NextCalls ==
    \/ StartCall
    \/ Request
    \/ CallsReadEvent
    \/ SendRune
    \/ CloseCh
    \/ WaitJoin
    \/ Finish
    \/ PrinterSelect
    \/ PrinterTick
    \/ NextCall

SpecCalls == InitCalls /\ [][NextCalls]_vars

\* C20: every record of the store decodes to a thread of at least two
\* messages (so never zero) whose last message is an assistant message with
\* non-empty content and whose last but one is a user message.
C20_PersistedComplete ==
    \A q \in DOMAIN fsFiles :
        LET t == Unmarshal(fsFiles[q])
            n == Len(t.val.Messages)
        IN /\ t.ok
           /\ n >= 2
           /\ t.val.Messages[n].Role = "assistant"
           /\ t.val.Messages[n].Content # <<>>
           /\ t.val.Messages[n - 1].Role = "user"

\* C20 witness: after a first run that stored a new thread, a second run
\* continued it and stored its four messages.
C20_Witness ==
    /\ Len(hist) = 1
    /\ hist[1].res.ok
    /\ pc = "done"
    /\ callErr = "nil"
    /\ loadedFrom # {}
    /\ \E q \in DOMAIN fsFiles : Len(Unmarshal(fsFiles[q]).val.Messages) = 4


=============================================================================
